---- MODULE Spec2Model ----
(***************************************************************************)
(* Conversation-tree engine of the Deep Research Viewer.                   *)
(*                                                                         *)
(* The repository holds several revisions of the Visualization component.  *)
(* Two of them are modelled here, each as its own state machine over the   *)
(* same variables:                                                         *)
(*   Spec       the revision with cancellation, history reconstruction,   *)
(*              auto-resume and the isFinal flag (src/unnamed/part_007);   *)
(*   SpecScope  the revision with the blocking-scope reparenting          *)
(*              (src/components/Visualization.tsx).                        *)
(* SpecChunk applies records one at a time, from an empty store, through   *)
(* processChunk of either revision or through processHistoryNode.          *)
(* SpecHistory applies processHistoryNode of part_007 to bounded lists of  *)
(* persisted records and replays the same records through processChunk.    *)
(* SpecStream feeds lines of the response body to the parser of           *)
(* streamThreading (src/unnamed/part_009) and its records to the guarded   *)
(* processChunk call of part_007.  SpecRender renders one node through     *)
(* finalReportContent of either revision of ResearchNode.                  *)
(* SpecLoad loads a conversation batch by batch through the reconstruction *)
(* of part_007 and through reconstructTreeFromHistory of part_003.         *)
(* SpecWire cuts a response body into network chunks and runs the read     *)
(* loop of streamThreading, in the revisions of part_009 and of api.ts.    *)
(*                                                                         *)
(* Text is a sequence of one-character strings; string concatenation is    *)
(* \o.  null is the string "null"; a field that is undefined in the        *)
(* source is the text Undefined.                                           *)
(***************************************************************************)
EXTENDS Naturals, Sequences, FiniteSets, TLC

VARIABLES
    nodes,                 \* useState: Map<string, ResearchNode>
    rootIds,               \* useState: string[]
    isSearching,           \* useState: boolean
    error,                 \* useState: string | null
    conversionUuid,        \* useState: string | null
    finalReport,           \* useState: string | null   (Visualization.tsx only)
    abortControllerRef,    \* useRef: the active controller, or null
    activeBlockingToolId,  \* useRef: the active blocking scope (Visualization.tsx only)
    aborted,               \* controllers whose signal is aborted
    task,                  \* the pending async handlers, by controller
    nCtl,                  \* number of handlers started so far
    nRec,                  \* number of records applied so far
    lastChunk,             \* the record applied by the last step, or NoChunk
    routed,                \* per node id, the fragments routed to each accumulator
    finalSeen,             \* node ids for which a record of type final was applied
    closedScopes,          \* ids of the blocking scopes that were closed by their result
    openScopes,            \* ids of the blocking calls seen whose result was not seen
    path,                  \* SpecChunk: the code path that applies the records
    hist,                  \* the persisted records (SpecHistory) or batches loaded last
    tree,                  \* the reconstruction of hist
    lastLine,              \* SpecStream: the line of the response body read last
    card,                  \* SpecRender: the report card of the last render
    wire                   \* SpecWire: the response body, the buffer and the records
                           \* streamThreading has yielded

vars == <<nodes, rootIds, isSearching, error, conversionUuid, finalReport,
          abortControllerRef, activeBlockingToolId, aborted, task, nCtl, nRec,
          lastChunk, routed, finalSeen, closedScopes, openScopes, path, hist, tree,
          lastLine, card, wire>>

----------------------------------------------------------------------------
(* Bounds *)

MaxSessions == 2
MaxRecords == 2
MaxHistLen == 1
MaxPersisted == 2
MaxScopeRecords == 3
MaxChunks == 2

----------------------------------------------------------------------------
(* Values *)

null == "null"
Undefined == <<"undefined">>
NoController == 0

HUMAN == "human"
ASSISTANT == "assistant"
TOOL_CALL == "tool_call"
TOOL == "tool"
SYSTEM == "system"
ERROR == "error"

MessageType_NEW == "new"
MessageType_APPEND == "append"
MessageType_FINAL == "final"

Role == {HUMAN, ASSISTANT, TOOL_CALL, TOOL, SYSTEM, ERROR}
MessageType == {MessageType_NEW, MessageType_APPEND, MessageType_FINAL}

\* id || 'unknown'
OrUnknown(id) == IF id = null THEN "unknown" ELSE id

\* text || ''
OrEmpty(t) == IF t = Undefined THEN <<>> ELSE t

\* `human-${Date.now()}` of the n-th handler
HumanId(n) == "human-" \o ToString(n)

EmptyMap == [k \in {} |-> null]

Has(map, id) == id \in DOMAIN map

\* map.set(id, node)
MapSet(map, id, node) == [k \in DOMAIN map \cup {id} |-> IF k = id THEN node ELSE map[k]]

\* arr.includes(x)
Includes(arr, x) == \E i \in 1..Len(arr) : arr[i] = x

\* A faulty registration: the id goes to the front of the list.
PushUnique_inFront(arr, x) == IF Includes(arr, x) THEN arr ELSE <<x>> \o arr

\* arr.includes(x) ? arr : [...arr, x]
PushUnique(arr, x) == IF Includes(arr, x) THEN arr ELSE Append(arr, x)

----------------------------------------------------------------------------
(* Records *)

\* A ChunkMessage that carries nothing: the last step applied no record.
NoChunk == [id |-> null, parent_id |-> null, role |-> "none", name |-> null,
            message |-> <<>>, type |-> "none"]

\* The accumulator a role is routed to.
Route(role) == IF role = TOOL THEN "toolResult"
               ELSE IF role = TOOL_CALL THEN "toolArgs" ELSE "content"

\* type === MessageType.FINAL || type === 'final'
IsFinalType(type) == type = MessageType_FINAL

\* Nothing was rendered.
NoCard == [rendered |-> FALSE, shown |-> FALSE, report |-> <<>>]

\* No line was read.
\* No request has been sent.
NoWire == [pc |-> "idle", sent |-> <<>>, body |-> <<>>, buffer |-> <<>>, yielded |-> <<>>]

NoLine == [prefix |-> FALSE, kind |-> "none", chunk |-> NoChunk]

----------------------------------------------------------------------------
(* part_007: processChunk *)

\* The node literal built for an id seen for the first time.
NewStreamingNode(nodeId, chunk) ==
    [id |-> nodeId,
     parentId |-> chunk.parent_id,
     role |-> chunk.role,
     name |-> IF chunk.name = null THEN "Unknown" ELSE chunk.name,
     content |-> <<>>,
     children |-> <<>>,
     status |-> "streaming",
     toolArgs |-> <<>>,
     toolResult |-> <<>>,
     isFinal |-> FALSE]

\* A faulty routing: the result record also clears the call input.
AppendByRole_clearingArgs(node, chunk) ==
    IF chunk.role = TOOL
    THEN [node EXCEPT !.toolResult = OrEmpty(@) \o chunk.message,
                      !.toolArgs = <<>>,
                      !.status = "completed"]
    ELSE IF chunk.role = TOOL_CALL
    THEN [node EXCEPT !.toolArgs = OrEmpty(@) \o chunk.message]
    ELSE [node EXCEPT !.content = OrEmpty(@) \o chunk.message]

\* if (role === TOOL) ... else if (role === TOOL_CALL) ... else ...
AppendByRole(node, chunk) ==
    IF chunk.role = TOOL
    THEN [node EXCEPT !.toolResult = OrEmpty(@) \o chunk.message,
                      !.status = "completed"]
    ELSE IF chunk.role = TOOL_CALL
    THEN [node EXCEPT !.toolArgs = OrEmpty(@) \o chunk.message]
    ELSE [node EXCEPT !.content = OrEmpty(@) \o chunk.message]

\* if (type === FINAL) { status = role === ERROR ? 'error' : 'completed'; isFinal = true }
MarkFinal(node, chunk) ==
    IF IsFinalType(chunk.type)
    THEN [node EXCEPT !.status = IF chunk.role = ERROR THEN "error" ELSE "completed",
                      !.isFinal = TRUE]
    ELSE node

\* The updater of processChunk applied to (map, roots).  The object newNode is
\* mutated after it was stored; the mutation is seen through the map unless the
\* entry was replaced by the copy made for the parent (parent_id === nodeId).
processChunk(map, roots, chunk) ==
    LET nodeId == OrUnknown(chunk.id)
        parent_id == chunk.parent_id
    IN IF ~Has(map, nodeId)
       THEN LET newNode == NewStreamingNode(nodeId, chunk)
                map1 == MapSet(map, nodeId, newNode)
                updated == MarkFinal(AppendByRole(newNode, chunk), chunk)
            IN IF parent_id # null
               THEN IF Has(map1, parent_id)
                    THEN LET parent == map1[parent_id]
                             newParent == [parent EXCEPT !.children = PushUnique(@, nodeId)]
                             map2 == MapSet(map1, parent_id, newParent)
                         IN [nodes |-> IF parent_id = nodeId
                                       THEN map2
                                       ELSE MapSet(map2, nodeId, updated),
                             rootIds |-> roots]
                    ELSE [nodes |-> MapSet(map1, nodeId, updated), rootIds |-> roots]
               ELSE [nodes |-> MapSet(map1, nodeId, updated),
                     rootIds |-> PushUnique(roots, nodeId)]
       ELSE [nodes |-> MapSet(map, nodeId, MarkFinal(AppendByRole(map[nodeId], chunk), chunk)),
             rootIds |-> roots]

----------------------------------------------------------------------------
(* Visualization.tsx: processChunk with the blocking scope *)

NestingTrigger == "run_blocking_subagent"

\* A faulty step 1: a blocking call met while a scope is active is ignored.
ScopeAfterCall_keepingFirst(scope, chunk) ==
    IF /\ chunk.type \in {MessageType_NEW, MessageType_APPEND}
       /\ chunk.role = TOOL_CALL
       /\ chunk.name = NestingTrigger
       /\ scope = null
    THEN OrUnknown(chunk.id) ELSE scope

\* 1. track the blocking sub-agent call
ScopeAfterCall(scope, chunk) ==
    IF /\ chunk.type \in {MessageType_NEW, MessageType_APPEND}
       /\ chunk.role = TOOL_CALL
       /\ chunk.name = NestingTrigger
    THEN OrUnknown(chunk.id) ELSE scope

\* 2. the effective parent, with the scope as it is after step 1
EffectiveParentId(scope, chunk) ==
    IF /\ scope # null
       /\ OrUnknown(chunk.id) # scope
       /\ chunk.type = MessageType_NEW
       /\ chunk.parent_id # scope
    THEN scope ELSE chunk.parent_id

\* 3. the result of the blocking call ends the nesting
ScopeAfterResult(scope, chunk) ==
    IF chunk.role = TOOL /\ scope = OrUnknown(chunk.id) THEN null ELSE scope

\* The node literal of the NEW branch, with the initial content assignment.
NewScopedNode(nodeId, effectiveParentId, chunk) ==
    [id |-> nodeId,
     parentId |-> effectiveParentId,
     role |-> chunk.role,
     name |-> IF chunk.name = null THEN "Unknown" ELSE chunk.name,
     content |-> IF chunk.role # TOOL_CALL /\ chunk.role # TOOL THEN chunk.message ELSE <<>>,
     children |-> <<>>,
     status |-> IF chunk.role = TOOL THEN "completed" ELSE "streaming",
     toolArgs |-> IF chunk.role = TOOL_CALL THEN chunk.message ELSE Undefined,
     toolResult |-> IF chunk.role = TOOL THEN chunk.message ELSE Undefined]

\* A faulty transition from call to result: the result takes over the role.
RenewNode_takingRole(node, chunk) ==
    IF chunk.role = TOOL /\ node.role = TOOL_CALL
    THEN [node EXCEPT !.toolResult = chunk.message, !.status = "completed",
                      !.role = chunk.role]
    ELSE IF chunk.message # <<>>
    THEN IF chunk.role = TOOL_CALL THEN [node EXCEPT !.toolArgs = chunk.message]
         ELSE IF chunk.role = TOOL
         THEN [node EXCEPT !.toolResult = chunk.message, !.status = "completed"]
         ELSE [node EXCEPT !.content = chunk.message]
    ELSE node

\* NEW for an id that exists: the transition from call to result, or the fallback.
RenewNode(node, chunk) ==
    IF chunk.role = TOOL /\ node.role = TOOL_CALL
    THEN [node EXCEPT !.toolResult = chunk.message, !.status = "completed"]
    ELSE IF chunk.message # <<>>
    THEN IF chunk.role = TOOL_CALL THEN [node EXCEPT !.toolArgs = chunk.message]
         ELSE IF chunk.role = TOOL
         THEN [node EXCEPT !.toolResult = chunk.message, !.status = "completed"]
         ELSE [node EXCEPT !.content = chunk.message]
    ELSE node

\* The routed append of the APPEND and FINAL branches.
AppendRouted(node, chunk) ==
    IF chunk.role = TOOL_CALL THEN [node EXCEPT !.toolArgs = OrEmpty(@) \o chunk.message]
    ELSE IF chunk.role = TOOL THEN [node EXCEPT !.toolResult = OrEmpty(@) \o chunk.message]
    ELSE [node EXCEPT !.content = @ \o chunk.message]

\* FINAL: completed, then the trailing content if there is any.
FinishNode(node, chunk) ==
    LET completed == [node EXCEPT !.status = "completed"]
    IN IF chunk.message # <<>> THEN AppendRouted(completed, chunk) ELSE completed

\* The text `{"report":"r"}`, as one fragment.
ReportJson == <<"{\"report\":\"r\"}">>

\* JSON.parse(toolArgs) succeeds and finds a report: of the texts of this model only
\* ReportJson is a JSON object.
HasReport(toolArgs) == toolArgs = ReportJson

\* JSON.parse(node.toolArgs || '{}').report
ParsedReport(toolArgs) == IF HasReport(toolArgs) THEN <<"r">> ELSE <<>>

\* The report the FINAL branch hands to setFinalReport, or the one it leaves.
ReportAfterFinal(report, node) ==
    LET first == IF node.parentId = null /\ node.role = ASSISTANT /\ node.content # <<>>
                 THEN node.content ELSE report
    IN IF node.role = TOOL_CALL /\ node.name = "complete_task"
          /\ HasReport(OrEmpty(node.toolArgs))
       THEN ParsedReport(OrEmpty(node.toolArgs)) ELSE first

\* processChunk of Visualization.tsx on (map, roots, scope, report).
processChunkScoped(map, roots, scope, report, chunk) ==
    LET nodeId == OrUnknown(chunk.id)
        scope1 == ScopeAfterCall(scope, chunk)
        effectiveParentId == EffectiveParentId(scope1, chunk)
        scope2 == ScopeAfterResult(scope1, chunk)
        same == [nodes |-> map, rootIds |-> roots, scope |-> scope2, finalReport |-> report]
    IN IF chunk.type = MessageType_NEW
       THEN IF ~Has(map, nodeId)
            THEN LET map1 == MapSet(map, nodeId,
                                    NewScopedNode(nodeId, effectiveParentId, chunk))
                 IN IF effectiveParentId # null
                    THEN IF Has(map1, effectiveParentId)
                         THEN [same EXCEPT !.nodes =
                                   [map1 EXCEPT ![effectiveParentId].children =
                                                    PushUnique(@, nodeId)]]
                         ELSE [same EXCEPT !.nodes = map1]
                    ELSE [same EXCEPT !.nodes = map1, !.rootIds = PushUnique(roots, nodeId)]
            ELSE [same EXCEPT !.nodes = [map EXCEPT ![nodeId] = RenewNode(@, chunk)]]
       ELSE IF chunk.type = MessageType_APPEND
       THEN IF Has(map, nodeId)
            THEN [same EXCEPT !.nodes = [map EXCEPT ![nodeId] = AppendRouted(@, chunk)]]
            ELSE same
       ELSE IF chunk.type = MessageType_FINAL
       THEN IF Has(map, nodeId)
            THEN LET node == FinishNode(map[nodeId], chunk)
                 IN [same EXCEPT !.nodes = [map EXCEPT ![nodeId] = node],
                                 !.finalReport = ReportAfterFinal(report, node)]
            ELSE same
       ELSE same

----------------------------------------------------------------------------
(* part_007: handleSelectHistory, the reconstruction of the tree *)

\* `${entity.message_uuid}_${index}`
FallbackId(message_uuid, index) == message_uuid \o "_" \o ToString(index)

\* The node literal built for a persisted record whose id is seen for the first time.
NewHistoryNode(nodeId, effectiveParentId, displayMsg) ==
    [id |-> nodeId,
     parentId |-> effectiveParentId,
     role |-> displayMsg.role,
     name |-> IF displayMsg.name # null THEN displayMsg.name
              ELSE IF displayMsg.role = HUMAN THEN "User" ELSE "Unknown",
     content |-> IF displayMsg.role # TOOL_CALL /\ displayMsg.role # TOOL
                 THEN displayMsg.message ELSE <<>>,
     children |-> <<>>,
     status |-> IF displayMsg.role = ERROR THEN "error" ELSE "completed",
     toolArgs |-> IF displayMsg.role = TOOL_CALL THEN displayMsg.message ELSE Undefined,
     toolResult |-> IF displayMsg.role = TOOL THEN displayMsg.message ELSE Undefined,
     isFinal |-> IsFinalType(displayMsg.type)]

\* A faulty merge: the node takes the parent of the merged record.
MergeHistoryNode_takingParent(node, displayMsg) ==
    LET merged == IF displayMsg.role = TOOL
                  THEN [node EXCEPT !.toolResult = displayMsg.message]
                  ELSE IF displayMsg.role = TOOL_CALL
                  THEN [node EXCEPT !.toolArgs = displayMsg.message]
                  ELSE [node EXCEPT !.content = displayMsg.message]
        moved == [merged EXCEPT !.parentId = displayMsg.parent_id]
    IN IF IsFinalType(displayMsg.type) THEN [moved EXCEPT !.isFinal = TRUE] ELSE moved

\* The else branch: merge a record into the node that has its id.
MergeHistoryNode(node, displayMsg) ==
    LET merged == IF displayMsg.role = TOOL
                  THEN [node EXCEPT !.toolResult = displayMsg.message]
                  ELSE IF displayMsg.role = TOOL_CALL
                  THEN [node EXCEPT !.toolArgs = displayMsg.message]
                  ELSE [node EXCEPT !.content = displayMsg.message]
    IN IF IsFinalType(displayMsg.type) THEN [merged EXCEPT !.isFinal = TRUE] ELSE merged

\* processHistoryNode(displayMsg, parentId, fallbackId) on tempNodes and tempRoots.
processHistoryNode(temp, displayMsg, parentId, fallbackId) ==
    LET nodeId == IF displayMsg.id # null THEN displayMsg.id ELSE fallbackId
        effectiveParentId == IF displayMsg.parent_id # null
                             THEN displayMsg.parent_id ELSE parentId
    IN IF ~Has(temp.nodes, nodeId)
       THEN LET map1 == MapSet(temp.nodes, nodeId,
                               NewHistoryNode(nodeId, effectiveParentId, displayMsg))
            IN IF effectiveParentId # null
               THEN IF Has(map1, effectiveParentId)
                    THEN [nodes |-> [map1 EXCEPT ![effectiveParentId].children =
                                                     PushUnique(@, nodeId)],
                          rootIds |-> temp.rootIds]
                    ELSE [nodes |-> map1, rootIds |-> temp.rootIds]
               ELSE [nodes |-> map1, rootIds |-> PushUnique(temp.rootIds, nodeId)]
       ELSE [nodes |-> [temp.nodes EXCEPT ![nodeId] = MergeHistoryNode(@, displayMsg)],
             rootIds |-> temp.rootIds]

\* entity.content.forEach((msg, index) => processHistoryNode(msg, null, fallbackId))
\* from the i-th message on (i counts from 1; index = i - 1).
RECURSIVE ReconstructContent(_, _, _, _)
ReconstructContent(temp, message_uuid, content, i) ==
    IF i > Len(content) THEN temp
    ELSE ReconstructContent(
             processHistoryNode(temp, content[i], null, FallbackId(message_uuid, i - 1)),
             message_uuid, content, i + 1)

\* for (const entity of entities) { ... } starting from empty tempNodes, tempRoots
RECURSIVE ReconstructFrom(_, _, _)
ReconstructFrom(temp, entities, k) ==
    IF k > Len(entities) THEN temp
    ELSE ReconstructFrom(
             ReconstructContent(temp, entities[k].message_uuid, entities[k].content, 1),
             entities, k + 1)

Reconstruct(entities) == ReconstructFrom([nodes |-> EmptyMap, rootIds |-> <<>>], entities, 1)

\* lastEntity && lastEntity.thread_status === false
ShouldResume(entities) ==
    Len(entities) > 0 /\ entities[Len(entities)].thread_status = FALSE

----------------------------------------------------------------------------
(* part_007: the session handlers *)

\* The records a stream may deliver and the histories the server may return.
Chunks == [id : {null, "a"}, parent_id : {null, "a"}, role : {ASSISTANT, TOOL, ERROR},
           name : {null}, message : {<<"x">>},
           type : {MessageType_NEW, MessageType_FINAL}]

ConversionUuids == {"c1"}
MessageUuids == {"m1"}

HistoryMessages == [id : {null, "a"}, parent_id : {null},
                    role : {HUMAN, ERROR}, name : {null},
                    message : {<<"h">>}, type : {"none", MessageType_FINAL}]

SeqsUpTo(S, n) == UNION {[1..k -> S] : k \in 0..n}

\* The batches of an earlier turn of the conversation: none, or the batch of one
\* question, which the server flagged complete or incomplete.
EarlierBatches ==
    {<<>>} \cup
    {<<[message_uuid |-> "m0",
        content |-> <<[id |-> null, parent_id |-> null, role |-> HUMAN, name |-> null,
                       message |-> <<"h">>, type |-> "none"]>>,
        thread_status |-> t]>> : t \in BOOLEAN}

Histories == {<<>>} \cup
             {e \o <<[message_uuid |-> m, content |-> c, thread_status |-> t]>> :
                 e \in EarlierBatches,
                 m \in MessageUuids, c \in SeqsUpTo(HistoryMessages, MaxHistLen),
                 t \in BOOLEAN}

Controllers == 1..MaxSessions

Idle == [kind |-> "none", pc |-> "idle", conversionUuid |-> null, discarded |-> FALSE,
         thread |-> null]

\* The handlers that have not returned when the store is given to another conversation
\* are marked: their session was discarded.
Discard(t) ==
    [c \in DOMAIN t |->
        IF t[c].pc \in {"fetch", "detail", "stream"}
        THEN [t[c] EXCEPT !.discarded = TRUE] ELSE t[c]]

\* stopGeneration's loop: every streaming node becomes completed.
SweepCompleted(map) ==
    [k \in DOMAIN map |->
        IF map[k].status = "streaming" THEN [map[k] EXCEPT !.status = "completed"]
        ELSE map[k]]

\* The loop of the finally blocks: error for role error, completed otherwise.
SweepByRole(map) ==
    [k \in DOMAIN map |->
        IF map[k].status = "streaming"
        THEN [map[k] EXCEPT !.status = IF map[k].role = ERROR THEN "error" ELSE "completed"]
        ELSE map[k]]

\* stopGeneration, as the values it leaves behind.
stopGeneration_nodes(map) ==
    IF abortControllerRef # NoController THEN SweepCompleted(map) ELSE map
stopGeneration_aborted ==
    IF abortControllerRef # NoController THEN aborted \cup {abortControllerRef} ELSE aborted
stopGeneration_isSearching ==
    IF abortControllerRef # NoController THEN FALSE ELSE isSearching

\* A faulty finally: the test for the active controller is missing.
finally_active_unguarded(c) == TRUE

\* The finally block of handleSearch and of handleSelectHistory for controller c:
\* if (abortControllerRef.current === controller)
finally_active(c) == abortControllerRef = c
finally_nodes(c, map) == IF finally_active(c) THEN SweepByRole(map) ELSE map
finally_isSearching(c, v) == IF finally_active(c) THEN FALSE ELSE v
finally_ref(c) == IF finally_active(c) THEN NoController ELSE abortControllerRef

Done(c) == [task EXCEPT ![c].pc = "done"]

\* The user node injected by handleSearch.
UserNode(id, query) ==
    [id |-> id, parentId |-> null, role |-> HUMAN, name |-> "User", content |-> query,
     children |-> <<>>, status |-> "completed", toolArgs |-> Undefined,
     toolResult |-> Undefined, isFinal |-> TRUE]

\* Bookkeeping of the records applied to the current store.
RoutedAdd(r, chunk) ==
    LET nodeId == OrUnknown(chunk.id)
        old == IF nodeId \in DOMAIN r THEN r[nodeId]
               ELSE [content |-> <<>>, toolArgs |-> <<>>, toolResult |-> <<>>]
    IN MapSet(r, nodeId, [old EXCEPT ![Route(chunk.role)] = @ \o chunk.message])

FinalSeenAdd(f, chunk) ==
    IF IsFinalType(chunk.type) THEN f \cup {OrUnknown(chunk.id)} ELSE f

HistoryFinals(entities) ==
    {IF entities[k].content[i].id # null THEN entities[k].content[i].id
     ELSE FallbackId(entities[k].message_uuid, i - 1) :
        <<k, i>> \in {ki \in (1..Len(entities)) \X (1..MaxHistLen) :
                         /\ ki[2] <= Len(entities[ki[1]].content)
                         /\ IsFinalType(entities[ki[1]].content[ki[2]].type)}}

SessionUnused == UNCHANGED <<finalReport, activeBlockingToolId, closedScopes, openScopes,
                             path, hist, tree, lastLine, card, wire>>

\* The same for the handlers that record the loaded batches and their tree.
LoadedUnused == UNCHANGED <<finalReport, activeBlockingToolId, closedScopes, openScopes,
                            path, lastLine, card, wire>>

\* The submit button while a search is running: it is the stop button.
handleSearch_stop ==
    /\ isSearching
    /\ abortControllerRef' = NoController
    /\ aborted' = stopGeneration_aborted
    /\ isSearching' = stopGeneration_isSearching
    /\ nodes' = stopGeneration_nodes(nodes)
    /\ lastChunk' = NoChunk
    /\ UNCHANGED <<rootIds, error, conversionUuid, task, nCtl, nRec, routed, finalSeen>>
    /\ SessionUnused

\* handleSearch with a non-blank query, up to the await of fetchCompletion.
handleSearch_submit ==
    /\ ~isSearching
    /\ nCtl < MaxSessions
    /\ \E query \in {<<"q">>} :
         LET c == nCtl + 1
             fresh == conversionUuid = null
             userMsgId == HumanId(c)
         IN /\ isSearching' = TRUE
            /\ error' = null
            /\ abortControllerRef' = c
            /\ nCtl' = c
            /\ nodes' = MapSet(IF fresh THEN EmptyMap ELSE nodes, userMsgId,
                               UserNode(userMsgId, query))
            /\ rootIds' = Append(IF fresh THEN <<>> ELSE rootIds, userMsgId)
            /\ routed' = IF fresh THEN EmptyMap ELSE routed
            /\ finalSeen' = IF fresh THEN {} ELSE finalSeen
            /\ task' = [task EXCEPT ![c] = [kind |-> "search", pc |-> "fetch",
                                            conversionUuid |-> conversionUuid,
                                            discarded |-> FALSE, thread |-> null]]
    /\ lastChunk' = NoChunk
    /\ UNCHANGED <<conversionUuid, aborted, nRec>>
    /\ SessionUnused

\* fetchCompletion resolves; the handler goes on to the stream unless aborted.
handleSearch_fetched(c) ==
    /\ task[c].kind = "search" /\ task[c].pc = "fetch"
    /\ \E answered \in ConversionUuids \cup {null} :
         LET newConversionUuid ==
                 IF answered # null THEN answered
                 ELSE IF task[c].conversionUuid # null THEN task[c].conversionUuid
                 ELSE ""
         IN IF c \in aborted
            THEN /\ task' = Done(c)
                 /\ isSearching' = finally_isSearching(c, isSearching)
                 /\ abortControllerRef' = finally_ref(c)
                 /\ nodes' = finally_nodes(c, nodes)
                 /\ UNCHANGED conversionUuid
            ELSE /\ task' = [task EXCEPT ![c].pc = "stream"]
                 /\ conversionUuid' = IF newConversionUuid # "" THEN newConversionUuid
                                      ELSE conversionUuid
                 /\ UNCHANGED <<isSearching, abortControllerRef, nodes>>
    /\ lastChunk' = NoChunk
    /\ UNCHANGED <<rootIds, error, aborted, nCtl, nRec, routed, finalSeen>>
    /\ SessionUnused

\* fetchCompletion rejects.
handleSearch_fetchFailed(c) ==
    /\ task[c].kind = "search" /\ task[c].pc = "fetch"
    /\ error' = IF c \in aborted THEN error ELSE "search failed"
    /\ task' = Done(c)
    /\ isSearching' = finally_isSearching(c, isSearching)
    /\ abortControllerRef' = finally_ref(c)
    /\ nodes' = finally_nodes(c, nodes)
    /\ lastChunk' = NoChunk
    /\ UNCHANGED <<rootIds, conversionUuid, aborted, nCtl, nRec, routed, finalSeen>>
    /\ SessionUnused

\* One turn of `for await (const chunk of stream)`: the stream of a controller
\* that is not aborted yields a record and processChunk applies it.
stream_chunk(c) ==
    /\ task[c].pc = "stream"
    /\ c \notin aborted
    /\ nRec < MaxRecords
    /\ \E chunk \in Chunks :
         LET r == processChunk(nodes, rootIds, chunk)
         IN /\ nodes' = r.nodes
            /\ rootIds' = r.rootIds
            /\ lastChunk' = chunk
            /\ routed' = RoutedAdd(routed, chunk)
            /\ finalSeen' = FinalSeenAdd(finalSeen, chunk)
    /\ nRec' = nRec + 1
    /\ UNCHANGED <<isSearching, error, conversionUuid, abortControllerRef, aborted,
                   task, nCtl>>
    /\ SessionUnused

\* The stream is exhausted: the loop ends and the finally block runs.
stream_end(c) ==
    /\ task[c].pc = "stream"
    /\ c \notin aborted
    /\ task' = Done(c)
    /\ isSearching' = finally_isSearching(c, isSearching)
    /\ abortControllerRef' = finally_ref(c)
    /\ nodes' = finally_nodes(c, nodes)
    /\ lastChunk' = NoChunk
    /\ UNCHANGED <<rootIds, error, conversionUuid, aborted, nCtl, nRec, routed, finalSeen>>
    /\ SessionUnused

\* A faulty catch: the AbortError of a cancelled stream is reported like a failure.
stream_error_reportingAbort(c) ==
    /\ task[c].pc = "stream"
    /\ error' = IF task[c].kind = "search" THEN "search failed"
                ELSE "Failed to load conversation"
    /\ task' = Done(c)
    /\ isSearching' = finally_isSearching(c, isSearching)
    /\ abortControllerRef' = finally_ref(c)
    /\ nodes' = finally_nodes(c, nodes)
    /\ lastChunk' = NoChunk
    /\ UNCHANGED <<rootIds, conversionUuid, aborted, nCtl, nRec, routed, finalSeen>>
    /\ SessionUnused

\* The stream throws: an AbortError after an abort, a transport error otherwise.
stream_error(c) ==
    /\ task[c].pc = "stream"
    /\ error' = IF c \in aborted THEN error
                ELSE IF task[c].kind = "search" THEN "search failed"
                ELSE "Failed to load conversation"
    /\ task' = Done(c)
    /\ isSearching' = finally_isSearching(c, isSearching)
    /\ abortControllerRef' = finally_ref(c)
    /\ nodes' = finally_nodes(c, nodes)
    /\ lastChunk' = NoChunk
    /\ UNCHANGED <<rootIds, conversionUuid, aborted, nCtl, nRec, routed, finalSeen>>
    /\ SessionUnused

handleNewChat ==
    /\ aborted' = stopGeneration_aborted
    /\ abortControllerRef' = NoController
    /\ nodes' = EmptyMap
    /\ rootIds' = <<>>
    /\ conversionUuid' = null
    /\ error' = null
    /\ isSearching' = FALSE
    /\ routed' = EmptyMap
    /\ finalSeen' = {}
    /\ lastChunk' = NoChunk
    /\ task' = Discard(task)
    /\ hist' = <<>>
    /\ tree' = [nodes |-> EmptyMap, rootIds |-> <<>>]
    /\ UNCHANGED <<nCtl, nRec>>
    /\ LoadedUnused

\* handleSelectHistory up to the await of fetchConversationDetail.
handleSelectHistory_start ==
    /\ nCtl < MaxSessions
    /\ \E uuid \in ConversionUuids :
         LET c == nCtl + 1
         IN /\ aborted' = stopGeneration_aborted
            /\ abortControllerRef' = c
            /\ nCtl' = c
            /\ isSearching' = TRUE
            /\ conversionUuid' = uuid
            /\ nodes' = EmptyMap
            /\ rootIds' = <<>>
            /\ error' = null
            /\ task' = [Discard(task) EXCEPT ![c] = [kind |-> "history", pc |-> "detail",
                                                     conversionUuid |-> uuid,
                                                     discarded |-> FALSE,
                                                     thread |-> null]]
    /\ routed' = EmptyMap
    /\ finalSeen' = {}
    /\ lastChunk' = NoChunk
    /\ hist' = <<>>
    /\ tree' = [nodes |-> EmptyMap, rootIds |-> <<>>]
    /\ UNCHANGED nRec
    /\ LoadedUnused

\* A faulty load: the stream is resumed before the rebuilt tree is installed.
handleSelectHistory_detail_resumingFirst(c) ==
    /\ task[c].kind = "history" /\ task[c].pc = "detail"
    /\ \E entities \in Histories :
         IF c \in aborted
         THEN /\ task' = Done(c)
              /\ isSearching' = finally_isSearching(c, isSearching)
              /\ abortControllerRef' = finally_ref(c)
              /\ nodes' = finally_nodes(c, nodes)
              /\ UNCHANGED <<rootIds, routed, finalSeen, hist, tree>>
         ELSE LET temp == Reconstruct(entities)
              IN /\ rootIds' = temp.rootIds
                 /\ routed' = EmptyMap
                 /\ finalSeen' = HistoryFinals(entities)
                 /\ hist' = entities
                 /\ tree' = temp
                 /\ IF ShouldResume(entities)
                    THEN /\ nodes' = nodes
                         /\ task' = [task EXCEPT
                                         ![c].pc = "stream",
                                         ![c].thread =
                                             entities[Len(entities)].message_uuid]
                         /\ UNCHANGED <<isSearching, abortControllerRef>>
                    ELSE /\ nodes' = finally_nodes(c, temp.nodes)
                         /\ task' = Done(c)
                         /\ isSearching' = finally_isSearching(c, isSearching)
                         /\ abortControllerRef' = finally_ref(c)
    /\ lastChunk' = NoChunk
    /\ UNCHANGED <<error, conversionUuid, aborted, nCtl, nRec>>
    /\ LoadedUnused

\* fetchConversationDetail resolves: the tree is rebuilt and installed, and the
\* handler resumes the stream of an incomplete last batch.
handleSelectHistory_detail(c) ==
    /\ task[c].kind = "history" /\ task[c].pc = "detail"
    /\ \E entities \in Histories :
         IF c \in aborted
         THEN /\ task' = Done(c)
              /\ isSearching' = finally_isSearching(c, isSearching)
              /\ abortControllerRef' = finally_ref(c)
              /\ nodes' = finally_nodes(c, nodes)
              /\ UNCHANGED <<rootIds, routed, finalSeen, hist, tree>>
         ELSE LET temp == Reconstruct(entities)
              IN /\ rootIds' = temp.rootIds
                 /\ routed' = EmptyMap
                 /\ finalSeen' = HistoryFinals(entities)
                 /\ hist' = entities
                 /\ tree' = temp
                 /\ IF ShouldResume(entities)
                    THEN /\ nodes' = temp.nodes
                         /\ task' = [task EXCEPT
                                         ![c].pc = "stream",
                                         ![c].thread =
                                             entities[Len(entities)].message_uuid]
                         /\ UNCHANGED <<isSearching, abortControllerRef>>
                    ELSE /\ nodes' = finally_nodes(c, temp.nodes)
                         /\ task' = Done(c)
                         /\ isSearching' = finally_isSearching(c, isSearching)
                         /\ abortControllerRef' = finally_ref(c)
    /\ lastChunk' = NoChunk
    /\ UNCHANGED <<error, conversionUuid, aborted, nCtl, nRec>>
    /\ LoadedUnused

\* fetchConversationDetail rejects.
handleSelectHistory_detailFailed(c) ==
    /\ task[c].kind = "history" /\ task[c].pc = "detail"
    /\ error' = IF c \in aborted THEN error ELSE "Failed to load conversation"
    /\ task' = Done(c)
    /\ isSearching' = finally_isSearching(c, isSearching)
    /\ abortControllerRef' = finally_ref(c)
    /\ nodes' = finally_nodes(c, nodes)
    /\ lastChunk' = NoChunk
    /\ UNCHANGED <<rootIds, conversionUuid, aborted, nCtl, nRec, routed, finalSeen>>
    /\ SessionUnused

\* The state after the first render; p names the code that will apply the records.
InitWith(p) ==
    /\ nodes = EmptyMap
    /\ rootIds = <<>>
    /\ isSearching = FALSE
    /\ error = null
    /\ conversionUuid = null
    /\ finalReport = null
    /\ abortControllerRef = NoController
    /\ activeBlockingToolId = null
    /\ aborted = {}
    /\ task = [c \in Controllers |-> Idle]
    /\ nCtl = 0
    /\ nRec = 0
    /\ lastChunk = NoChunk
    /\ routed = EmptyMap
    /\ finalSeen = {}
    /\ closedScopes = {}
    /\ openScopes = {}
    /\ path = p
    /\ hist = <<>>
    /\ tree = [nodes |-> EmptyMap, rootIds |-> <<>>]
    /\ lastLine = NoLine
    /\ card = NoCard
    /\ wire = NoWire

Init == InitWith("part_007")

Next ==
    \/ handleSearch_stop
    \/ handleSearch_submit
    \/ \E c \in Controllers : handleSearch_fetched(c)
    \/ \E c \in Controllers : handleSearch_fetchFailed(c)
    \/ \E c \in Controllers : stream_chunk(c)
    \/ \E c \in Controllers : stream_end(c)
    \/ \E c \in Controllers : stream_error(c)
    \/ handleNewChat
    \/ handleSelectHistory_start
    \/ \E c \in Controllers : handleSelectHistory_detail(c)
    \/ \E c \in Controllers : handleSelectHistory_detailFailed(c)

Spec == Init /\ [][Next]_vars

----------------------------------------------------------------------------
(* Visualization.tsx: the handlers *)

ScopedChunks ==
    {ch \in [id : {"a", "b"}, parent_id : {null, "a"}, role : {ASSISTANT, TOOL_CALL, TOOL},
             name : {null, NestingTrigger}, message : {<<"x">>}, type : MessageType] :
        ch.name # null => ch.role = TOOL_CALL}

ScopeUnused == UNCHANGED <<abortControllerRef, aborted, path, hist, tree, lastLine, card, wire>>

\* The scopes that were closed, for the claims about reopening.
ClosedAdd(closed, scope, chunk) ==
    IF ScopeAfterCall(scope, chunk) # null
       /\ ScopeAfterResult(ScopeAfterCall(scope, chunk), chunk) = null
    THEN closed \cup {ScopeAfterCall(scope, chunk)} ELSE closed

\* The blocking calls in progress as the records tell it: a tool_call named
\* run_blocking_subagent opens one, the tool record of the same id ends it.
ScopesSeen(open, chunk) ==
    IF chunk.role = TOOL_CALL /\ chunk.name = NestingTrigger
    THEN open \cup {OrUnknown(chunk.id)}
    ELSE IF chunk.role = TOOL THEN open \ {OrUnknown(chunk.id)} ELSE open

\* A faulty handleSearch: the scope of the previous stream is kept.
Viz_handleSearch_submit_keepingScope ==
    /\ ~isSearching
    /\ nCtl < MaxSessions
    /\ isSearching' = TRUE
    /\ error' = null
    /\ finalReport' = null
    /\ activeBlockingToolId' = activeBlockingToolId
    /\ nCtl' = nCtl + 1
    /\ task' = [task EXCEPT ![nCtl + 1] = [kind |-> "search", pc |-> "fetch",
                                           conversionUuid |-> conversionUuid,
                                           discarded |-> FALSE, thread |-> null]]
    /\ closedScopes' = {}
    /\ openScopes' = {}
    /\ lastChunk' = NoChunk
    /\ UNCHANGED <<nodes, rootIds, conversionUuid, nRec, routed, finalSeen>>
    /\ ScopeUnused

\* handleSearch up to the await of fetchCompletion.
Viz_handleSearch_submit ==
    /\ ~isSearching
    /\ nCtl < MaxSessions
    /\ isSearching' = TRUE
    /\ error' = null
    /\ finalReport' = null
    /\ activeBlockingToolId' = null
    /\ nCtl' = nCtl + 1
    /\ task' = [task EXCEPT ![nCtl + 1] = [kind |-> "search", pc |-> "fetch",
                                           conversionUuid |-> conversionUuid,
                                           discarded |-> FALSE, thread |-> null]]
    /\ closedScopes' = {}
    /\ openScopes' = {}
    /\ lastChunk' = NoChunk
    /\ UNCHANGED <<nodes, rootIds, conversionUuid, nRec, routed, finalSeen>>
    /\ ScopeUnused

\* fetchCompletion resolves.
Viz_handleSearch_fetched(c) ==
    /\ task[c].kind = "search" /\ task[c].pc = "fetch"
    /\ \E answered \in ConversionUuids \cup {null} :
         LET newConversionUuid ==
                 IF answered # null THEN answered
                 ELSE IF task[c].conversionUuid # null THEN task[c].conversionUuid
                 ELSE ""
         IN conversionUuid' = IF newConversionUuid # "" THEN newConversionUuid
                              ELSE conversionUuid
    /\ task' = [task EXCEPT ![c].pc = "stream"]
    /\ lastChunk' = NoChunk
    /\ UNCHANGED <<nodes, rootIds, isSearching, error, finalReport, activeBlockingToolId,
                   nCtl, nRec, routed, finalSeen, closedScopes, openScopes>>
    /\ ScopeUnused

\* fetchCompletion rejects: catch, then finally.
Viz_handleSearch_fetchFailed(c) ==
    /\ task[c].kind = "search" /\ task[c].pc = "fetch"
    /\ error' = "search failed"
    /\ isSearching' = FALSE
    /\ task' = Done(c)
    /\ lastChunk' = NoChunk
    /\ UNCHANGED <<nodes, rootIds, conversionUuid, finalReport, activeBlockingToolId,
                   nCtl, nRec, routed, finalSeen, closedScopes, openScopes>>
    /\ ScopeUnused

\* One turn of `for await (const chunk of stream)`.
Viz_stream_chunk(c) ==
    /\ task[c].pc = "stream"
    /\ nRec < MaxScopeRecords
    /\ \E chunk \in ScopedChunks :
         LET r == processChunkScoped(nodes, rootIds, activeBlockingToolId, finalReport, chunk)
         IN /\ nodes' = r.nodes
            /\ rootIds' = r.rootIds
            /\ activeBlockingToolId' = r.scope
            /\ finalReport' = r.finalReport
            /\ lastChunk' = chunk
            /\ routed' = RoutedAdd(routed, chunk)
            /\ finalSeen' = FinalSeenAdd(finalSeen, chunk)
            /\ closedScopes' = ClosedAdd(closedScopes, activeBlockingToolId, chunk)
            /\ openScopes' = ScopesSeen(openScopes, chunk)
    /\ nRec' = nRec + 1
    /\ UNCHANGED <<isSearching, error, conversionUuid, task, nCtl>>
    /\ ScopeUnused

\* The stream is exhausted: finally.
Viz_stream_end(c) ==
    /\ task[c].pc = "stream"
    /\ isSearching' = FALSE
    /\ task' = Done(c)
    /\ lastChunk' = NoChunk
    /\ UNCHANGED <<nodes, rootIds, error, conversionUuid, finalReport, activeBlockingToolId,
                   nCtl, nRec, routed, finalSeen, closedScopes, openScopes>>
    /\ ScopeUnused

\* The stream throws: catch, then finally.
Viz_stream_error(c) ==
    /\ task[c].pc = "stream"
    /\ error' = "search failed"
    /\ isSearching' = FALSE
    /\ task' = Done(c)
    /\ lastChunk' = NoChunk
    /\ UNCHANGED <<nodes, rootIds, conversionUuid, finalReport, activeBlockingToolId,
                   nCtl, nRec, routed, finalSeen, closedScopes, openScopes>>
    /\ ScopeUnused

Viz_handleNewChat ==
    /\ nodes' = EmptyMap
    /\ rootIds' = <<>>
    /\ finalReport' = null
    /\ conversionUuid' = null
    /\ activeBlockingToolId' = null
    /\ error' = null
    /\ routed' = EmptyMap
    /\ finalSeen' = {}
    /\ closedScopes' = {}
    /\ openScopes' = {}
    /\ lastChunk' = NoChunk
    /\ task' = Discard(task)
    /\ UNCHANGED <<isSearching, nCtl, nRec>>
    /\ ScopeUnused

NextScope ==
    \/ Viz_handleSearch_submit
    \/ \E c \in Controllers : Viz_handleSearch_fetched(c)
    \/ \E c \in Controllers : Viz_handleSearch_fetchFailed(c)
    \/ \E c \in Controllers : Viz_stream_chunk(c)
    \/ \E c \in Controllers : Viz_stream_end(c)
    \/ \E c \in Controllers : Viz_stream_error(c)
    \/ Viz_handleNewChat

InitScope == InitWith("Visualization")

SpecScope == InitScope /\ [][NextScope]_vars

----------------------------------------------------------------------------
(* One record at a time, from an empty store, through each of the code paths *)

Paths == {"part_007", "Visualization", "history"}

LiveChunks ==
    {ch \in [id : {"a", "b"}, parent_id : {null, "a"}, role : {ASSISTANT, TOOL_CALL, TOOL},
             name : {null, NestingTrigger}, message : {<<>>, <<"x">>, <<"y">>},
             type : MessageType] :
        ch.name # null => (ch.role = TOOL_CALL /\ ch.message = <<"x">>)}

DisplayMessages == [id : {"a", "b"}, parent_id : {null, "a"},
                    role : {ASSISTANT, TOOL_CALL, TOOL}, name : {null},
                    message : {<<>>, <<"x">>, <<"y">>}, type : {"none", MessageType_FINAL}]

ChunkUnused == UNCHANGED <<isSearching, error, conversionUuid, abortControllerRef, aborted,
                          task, nCtl, path, hist, tree, lastLine, card, wire>>

InitChunk == \E p \in Paths : InitWith(p)

\* processChunk of part_007
Chunk_processChunk ==
    /\ path = "part_007"
    /\ nRec < MaxChunks
    /\ \E chunk \in LiveChunks :
         LET r == processChunk(nodes, rootIds, chunk)
         IN /\ nodes' = r.nodes
            /\ rootIds' = r.rootIds
            /\ lastChunk' = chunk
            /\ routed' = RoutedAdd(routed, chunk)
            /\ finalSeen' = FinalSeenAdd(finalSeen, chunk)
            /\ openScopes' = ScopesSeen(openScopes, chunk)
    /\ nRec' = nRec + 1
    /\ UNCHANGED <<finalReport, activeBlockingToolId, closedScopes>>
    /\ ChunkUnused

\* processChunk of Visualization.tsx
Chunk_processChunkScoped ==
    /\ path = "Visualization"
    /\ nRec < MaxChunks
    /\ \E chunk \in LiveChunks :
         LET r == processChunkScoped(nodes, rootIds, activeBlockingToolId, finalReport, chunk)
         IN /\ nodes' = r.nodes
            /\ rootIds' = r.rootIds
            /\ activeBlockingToolId' = r.scope
            /\ finalReport' = r.finalReport
            /\ lastChunk' = chunk
            /\ routed' = RoutedAdd(routed, chunk)
            /\ finalSeen' = FinalSeenAdd(finalSeen, chunk)
            /\ closedScopes' = ClosedAdd(closedScopes, activeBlockingToolId, chunk)
            /\ openScopes' = ScopesSeen(openScopes, chunk)
    /\ nRec' = nRec + 1
    /\ ChunkUnused

\* processHistoryNode of part_007 on the next record of a batch
Chunk_processHistoryNode ==
    /\ path = "history"
    /\ nRec < MaxChunks
    /\ \E displayMsg \in DisplayMessages :
         LET r == processHistoryNode([nodes |-> nodes, rootIds |-> rootIds], displayMsg,
                                     null, FallbackId("m1", nRec))
         IN /\ nodes' = r.nodes
            /\ rootIds' = r.rootIds
            /\ lastChunk' = displayMsg
            /\ routed' = RoutedAdd(routed, displayMsg)
            /\ finalSeen' = FinalSeenAdd(finalSeen, displayMsg)
    /\ nRec' = nRec + 1
    /\ UNCHANGED <<finalReport, activeBlockingToolId, closedScopes, openScopes>>
    /\ ChunkUnused

NextChunk ==
    \/ Chunk_processChunk
    \/ Chunk_processChunkScoped
    \/ Chunk_processHistoryNode

SpecChunk == InitChunk /\ [][NextChunk]_vars

----------------------------------------------------------------------------
(* Reconstruction of a whole batch, and the live ingestion of the same records *)

PersistedMessages == [id : {null, "a", "b"}, parent_id : {null, "a"},
                      role : {HUMAN, TOOL_CALL, TOOL}, name : {null},
                      message : {<<"x">>, <<"y">>}, type : {"none", MessageType_FINAL}]

Batch(content) == <<[message_uuid |-> "m1", content |-> content, thread_status |-> TRUE]>>

\* for await (const chunk of stream) processChunk(chunk), from an empty store
RECURSIVE IngestFrom(_, _, _)
IngestFrom(store, chunks, i) ==
    IF i > Len(chunks) THEN store
    ELSE IngestFrom(processChunk(store.nodes, store.rootIds, chunks[i]), chunks, i + 1)

Ingest(chunks) == IngestFrom([nodes |-> EmptyMap, rootIds |-> <<>>], chunks, 1)

\* The server persists one more record of the conversation; the client loads it.
History_persist ==
    /\ Len(hist) < MaxPersisted
    /\ \E displayMsg \in PersistedMessages :
         /\ hist' = Append(hist, displayMsg)
         /\ tree' = Reconstruct(Batch(hist'))
    /\ UNCHANGED <<nodes, rootIds, isSearching, error, conversionUuid, finalReport,
                   abortControllerRef, activeBlockingToolId, aborted, task, nCtl, nRec,
                   lastChunk, routed, finalSeen, closedScopes, openScopes, path, lastLine,
                   card, wire>>

NextHistory == History_persist

SpecHistory == Init /\ [][NextHistory]_vars

----------------------------------------------------------------------------
(* The lines of a response body, through streamThreading and the loop of handleSearch *)

MaxLines == 2

\* The records a line may hold; the role is whatever the server wrote.
StreamRecords == [id : {"a", "b"}, parent_id : {null}, role : {ASSISTANT, TOOL, "bogus"},
                  name : {null}, message : {<<"x">>},
                  type : {MessageType_NEW, MessageType_FINAL}]

\* A line is blank, text that is no JSON, the JSON value null or the JSON text of a
\* record, with or without the prefix `data: `.
Lines ==
    {[prefix |-> d, kind |-> k, chunk |-> NoChunk] :
        d \in BOOLEAN, k \in {"blank", "garbage", "null"}}
    \cup {[prefix |-> d, kind |-> "object", chunk |-> ch] :
             d \in BOOLEAN, ch \in StreamRecords}

\* if (line.trim()) { try { yield JSON.parse(line.replace(/^data: /, '')) } catch { warn } }
ParseLine(line) ==
    IF line.kind = "blank" /\ ~line.prefix
    THEN [yields |-> FALSE, isNull |-> FALSE, chunk |-> NoChunk]
    ELSE IF line.kind \in {"blank", "garbage"}
    THEN [yields |-> FALSE, isNull |-> FALSE, chunk |-> NoChunk]
    ELSE IF line.kind = "null"
    THEN [yields |-> TRUE, isNull |-> TRUE, chunk |-> NoChunk]
    ELSE [yields |-> TRUE, isNull |-> FALSE, chunk |-> line.chunk]

\* try { processChunk(chunk) } catch (chunkError) { console.error(...) }: destructuring
\* null throws before the store is touched.
TryProcessChunk(map, roots, yielded) ==
    IF yielded.isNull THEN [nodes |-> map, rootIds |-> roots]
    ELSE processChunk(map, roots, yielded.chunk)

\* streamThreading reads one more line; handleSearch applies what it yields.
Stream_line ==
    /\ nRec < MaxLines
    /\ \E line \in Lines :
         LET yielded == ParseLine(line)
             r == IF yielded.yields THEN TryProcessChunk(nodes, rootIds, yielded)
                  ELSE [nodes |-> nodes, rootIds |-> rootIds]
         IN /\ lastLine' = line
            /\ nodes' = r.nodes
            /\ rootIds' = r.rootIds
            /\ lastChunk' = yielded.chunk
    /\ nRec' = nRec + 1
    /\ UNCHANGED <<isSearching, error, conversionUuid, finalReport, abortControllerRef,
                   activeBlockingToolId, aborted, task, nCtl, routed, finalSeen,
                   closedScopes, openScopes, path, hist, tree, card, wire>>

NextStream == Stream_line

SpecStream == Init /\ [][NextStream]_vars

----------------------------------------------------------------------------
(* ResearchNode: the report card of a node, in two revisions of the component *)

Revisions == {"part_002", "ResearchNode.tsx"}

\* The nodes handed to the component.
RenderNodes == [id : {"a"}, role : {HUMAN, ASSISTANT, TOOL_CALL},
                name : {"Unknown", "complete_task"},
                content : {<<>>, <<" ">>, <<"x">>},
                toolArgs : {Undefined, <<"x">>, ReportJson},
                isFinal : BOOLEAN]

\* text.trim().length > 0
NotBlank(text) == \E i \in 1..Len(text) : text[i] # " "

\* finalReportContent of part_002: nothing unless the node is final and not human; then
\* the content, or the report of a complete_task call.
finalReportContent(node) ==
    IF ~node.isFinal THEN [shown |-> FALSE, report |-> <<>>]
    ELSE IF node.role = HUMAN THEN [shown |-> FALSE, report |-> <<>>]
    ELSE IF node.content # <<>> /\ NotBlank(node.content)
    THEN [shown |-> TRUE, report |-> node.content]
    ELSE IF node.role = TOOL_CALL /\ node.name = "complete_task"
            /\ node.toolArgs # Undefined /\ HasReport(node.toolArgs)
    THEN [shown |-> TRUE, report |-> ParsedReport(node.toolArgs)]
    ELSE [shown |-> FALSE, report |-> <<>>]

\* finalReportContent of ResearchNode.tsx: isFinalReportTool && toolArgs?.report
finalReportContent_tool(node) ==
    IF node.role = TOOL_CALL /\ node.name = "complete_task"
       /\ OrEmpty(node.toolArgs) # <<>> /\ HasReport(node.toolArgs)
    THEN [shown |-> TRUE, report |-> ParsedReport(node.toolArgs)]
    ELSE [shown |-> FALSE, report |-> <<>>]

InitRender == \E p \in Revisions : InitWith(p)

\* The component is rendered for a node; the card holds the node and what is shown.
Render ==
    /\ \E node \in RenderNodes :
         LET content == IF path = "part_002" THEN finalReportContent(node)
                        ELSE finalReportContent_tool(node)
         IN card' = [rendered |-> TRUE, node |-> node,
                     shown |-> content.shown, report |-> content.report]
    /\ UNCHANGED <<nodes, rootIds, isSearching, error, conversionUuid, finalReport,
                   abortControllerRef, activeBlockingToolId, aborted, task, nCtl, nRec,
                   lastChunk, routed, finalSeen, closedScopes, openScopes, path, hist,
                   tree, lastLine, wire>>

NextRender == Render

SpecRender == InitRender /\ [][NextRender]_vars

----------------------------------------------------------------------------
(* The history of a conversation, batch by batch, through both reconstructions *)

MaxLoaded == 3
MaxBatches == 2

LoadPaths == {"part_007", "part_003"}

LoadedMessages == [id : {null, "a", "b"}, parent_id : {null, "a"},
                   role : {HUMAN, TOOL_CALL, TOOL}, name : {null},
                   message : {<<"x">>, <<"y">>}, type : {"none"}]

\* The node literal of reconstructTreeFromHistory (part_003).
NewFlatNode(nodeId, msg) ==
    [id |-> nodeId,
     parentId |-> msg.parent_id,
     role |-> msg.role,
     name |-> IF msg.name = null THEN "Unknown" ELSE msg.name,
     content |-> <<>>,
     children |-> <<>>,
     status |-> "completed",
     toolArgs |-> Undefined,
     toolResult |-> Undefined]

\* One turn of allMessages.forEach of reconstructTreeFromHistory (part_003).
reconstructStep(acc, msg) ==
    LET nodeId == OrUnknown(msg.id)
        created ==
            IF Has(acc.nodes, nodeId) THEN acc
            ELSE LET map1 == MapSet(acc.nodes, nodeId, NewFlatNode(nodeId, msg))
                 IN IF msg.parent_id # null
                    THEN IF Has(map1, msg.parent_id)
                         THEN [acc EXCEPT !.nodes =
                                   [map1 EXCEPT ![msg.parent_id].children =
                                                    PushUnique(@, nodeId)]]
                         ELSE [acc EXCEPT !.nodes = map1]
                    ELSE [acc EXCEPT !.nodes = map1,
                                     !.rootIds = PushUnique(acc.rootIds, nodeId)]
        merged ==
            IF msg.role = TOOL
            THEN [created EXCEPT !.nodes[nodeId].toolResult = msg.message]
            ELSE [created EXCEPT !.nodes[nodeId].content = msg.message]
        closed ==
            IF msg.name = "complete_task" /\ msg.parent_id # null
               /\ Has(merged.nodes, msg.parent_id)
            THEN [merged EXCEPT !.nodes[msg.parent_id].status = "completed"]
            ELSE merged
    IN IF msg.role = ASSISTANT /\ msg.parent_id = null
       THEN [closed EXCEPT !.finalReport = msg.message]
       ELSE closed

\* entities.forEach(entity => allMessages.push(...entity.content))
RECURSIVE Flatten(_, _)
Flatten(entities, k) ==
    IF k > Len(entities) THEN <<>>
    ELSE entities[k].content \o Flatten(entities, k + 1)

RECURSIVE reconstructFromIndex(_, _, _)
reconstructFromIndex(acc, allMessages, i) ==
    IF i > Len(allMessages) THEN acc
    ELSE reconstructFromIndex(reconstructStep(acc, allMessages[i]), allMessages, i + 1)

\* reconstructTreeFromHistory(entities) of part_003
reconstructTreeFromHistory(entities) ==
    reconstructFromIndex([nodes |-> EmptyMap, rootIds |-> <<>>, finalReport |-> null],
                         Flatten(entities, 1), 1)

\* The tree a load of the batches installs, by revision.
LoadedTree(p, entities) ==
    IF p = "part_007" THEN Reconstruct(entities) ELSE reconstructTreeFromHistory(entities)

\* The number of records in the batches.
RECURSIVE Loaded(_, _)
Loaded(entities, k) ==
    IF k > Len(entities) THEN 0 ELSE Len(entities[k].content) + Loaded(entities, k + 1)

LoadUnused == UNCHANGED <<nodes, rootIds, isSearching, error, conversionUuid, finalReport,
                          abortControllerRef, activeBlockingToolId, aborted, task, nCtl,
                          nRec, lastChunk, routed, finalSeen, closedScopes, openScopes,
                          path, lastLine, card, wire>>

InitLoad == \E p \in LoadPaths : InitWith(p)

\* The server opens a batch with one record; the client loads the conversation.
Load_newBatch ==
    /\ Len(hist) < MaxBatches
    /\ Loaded(hist, 1) < MaxLoaded
    /\ \E msg \in LoadedMessages :
         hist' = Append(hist, [message_uuid |-> "m" \o ToString(Len(hist) + 1),
                               content |-> <<msg>>, thread_status |-> TRUE])
    /\ tree' = LoadedTree(path, hist')
    /\ LoadUnused

\* The server adds a record to the last batch; the client loads the conversation.
Load_sameBatch ==
    /\ Len(hist) > 0
    /\ Loaded(hist, 1) < MaxLoaded
    /\ \E msg \in LoadedMessages :
         hist' = [hist EXCEPT ![Len(hist)].content = Append(@, msg)]
    /\ tree' = LoadedTree(path, hist')
    /\ LoadUnused

\* The client loads the same conversation once more.
Load_again ==
    /\ Len(hist) > 0
    /\ tree' = LoadedTree(path, hist)
    /\ UNCHANGED hist
    /\ LoadUnused

NextLoad ==
    \/ Load_newBatch
    \/ Load_sameBatch
    \/ Load_again

SpecLoad == InitLoad /\ [][NextLoad]_vars

----------------------------------------------------------------------------
(* streamThreading: the response body, cut into network chunks, to records *)

MaxBody == 4

\* The two revisions of streamThreading.
WirePaths == {"part_009", "api.ts"}

\* A body is text; its pieces here are the line feed, a blank, the prefix `data: `,
\* the JSON text of two records and text that is no JSON.
LineFeed == "\n"
Blank == " "
DataPrefix == "data: "
RecordTexts == {"{\"id\":\"a\"}", "{\"id\":\"b\"}"}
Garbage == "oops"
Pieces == {LineFeed, Blank, DataPrefix, Garbage} \cup RecordTexts

Bodies == UNION {[1..n -> Pieces] : n \in 0..MaxBody}

\* text.trim()
RECURSIVE TrimLeft(_)
TrimLeft(text) ==
    IF text # <<>> /\ Head(text) = Blank THEN TrimLeft(Tail(text)) ELSE text

RECURSIVE TrimRight(_)
TrimRight(text) ==
    IF text # <<>> /\ text[Len(text)] = Blank
    THEN TrimRight(SubSeq(text, 1, Len(text) - 1)) ELSE text

Trim(text) == TrimRight(TrimLeft(text))

\* line.replace(/^data: /, '')
StripPrefix(line) == IF line # <<>> /\ Head(line) = DataPrefix THEN Tail(line) ELSE line

\* JSON.parse(text): blanks around one value are allowed; anything else throws.
JSONparse(text) ==
    IF Len(Trim(text)) = 1 /\ Trim(text)[1] \in RecordTexts
    THEN [ok |-> TRUE,
          value |-> IF Trim(text)[1] = "{\"id\":\"a\"}" THEN [id |-> "a"] ELSE [id |-> "b"]]
    ELSE [ok |-> FALSE, value |-> [id |-> null]]

\* The body of `for (const line of lines)`: what one line adds to the records yielded.
YieldLine(yielded, line) ==
    IF Trim(line) = <<>> THEN yielded
    ELSE IF JSONparse(StripPrefix(line)).ok
    THEN Append(yielded, JSONparse(StripPrefix(line)).value)
    ELSE yielded

\* The block after the loop, on what is left in the buffer: part_009 parses the buffer
\* as it is, api.ts removes the prefix first.
YieldRest(p, yielded, buffer) ==
    IF Trim(buffer) = <<>> THEN yielded
    ELSE LET cleanLine == IF p = "api.ts" THEN StripPrefix(buffer) ELSE buffer
         IN IF JSONparse(cleanLine).ok
            THEN Append(yielded, JSONparse(cleanLine).value)
            ELSE yielded

\* buffer.split('\n'): the pieces between the line feeds, the last one included.
RECURSIVE Split(_, _)
Split(text, line) ==
    IF text = <<>> THEN <<line>>
    ELSE IF Head(text) = LineFeed THEN <<line>> \o Split(Tail(text), <<>>)
    ELSE Split(Tail(text), Append(line, Head(text)))

RECURSIVE YieldLines(_, _, _)
YieldLines(yielded, lines, i) ==
    IF i > Len(lines) THEN yielded
    ELSE YieldLines(YieldLine(yielded, lines[i]), lines, i + 1)

\* One turn of the while loop on the chunk that reader.read() returned.
ReadChunk(w, chunk) ==
    LET lines == Split(w.buffer \o chunk, <<>>)
    IN [w EXCEPT !.buffer = lines[Len(lines)],
                 !.yielded = YieldLines(w.yielded, SubSeq(lines, 1, Len(lines) - 1), 1)]

WireUnused == UNCHANGED <<nodes, rootIds, isSearching, error, conversionUuid, finalReport,
                          abortControllerRef, activeBlockingToolId, aborted, task, nCtl,
                          nRec, lastChunk, routed, finalSeen, closedScopes, openScopes,
                          path, hist, tree, lastLine, card>>

InitWire == \E p \in WirePaths : InitWith(p)

\* fetch resolves with a response whose body the server has chosen.
Wire_respond ==
    /\ wire.pc = "idle"
    /\ \E body \in Bodies :
         wire' = [pc |-> "read", sent |-> body, body |-> body, buffer |-> <<>>,
                  yielded |-> <<>>]
    /\ WireUnused

\* reader.read() returns the next n pieces of the body.
Wire_read ==
    /\ wire.pc = "read"
    /\ \E n \in 1..Len(wire.body) :
         wire' = [ReadChunk(wire, SubSeq(wire.body, 1, n)) EXCEPT
                      !.body = SubSeq(wire.body, n + 1, Len(wire.body))]
    /\ WireUnused

\* reader.read() returns done: the rest of the buffer is parsed and the generator ends.
Wire_done ==
    /\ wire.pc = "read"
    /\ wire.body = <<>>
    /\ wire' = [wire EXCEPT !.pc = "done",
                            !.yielded = YieldRest(path, wire.yielded, wire.buffer),
                            !.buffer = <<>>]
    /\ WireUnused

NextWire ==
    \/ Wire_respond
    \/ Wire_read
    \/ Wire_done

SpecWire == InitWire /\ [][NextWire]_vars

----------------------------------------------------------------------------
(* Claims *)

Streaming == {id \in DOMAIN nodes : nodes[id].status = "streaming"}

\* C1: once no session is in progress (the last one ended by end of stream, by an
\* error or by cancellation), no node of the store has status streaming.
C1_NoDanglingStreaming == ~isSearching => Streaming = {}

\* C2: a node has isFinal exactly when a record of type final was applied for its id
\* (by the live stream or by the history load); no other operation sets the flag.
C2_FinalIffMarker == \A id \in DOMAIN nodes : nodes[id].isFinal <=> id \in finalSeen

Accumulators == {"content", "toolArgs", "toolResult"}

LivePaths == {"part_007", "Visualization"}

\* old is a prefix of new
IsPrefix(old, new) == Len(old) <= Len(new) /\ SubSeq(new, 1, Len(old)) = old

\* C3: after any sequence of records applied by processChunk, each accumulator of each
\* node is the concatenation, in arrival order, of the fragments routed to it.
C3_AppendConcatenation ==
    path \in LivePaths =>
        \A id \in DOMAIN nodes : \A acc \in Accumulators :
            OrEmpty(nodes[id][acc]) = routed[id][acc]

\* The last step applied a record to a node that was already in the store.
AppliedToExisting ==
    /\ nRec' = nRec + 1
    /\ OrUnknown(lastChunk'.id) \in DOMAIN nodes
    /\ OrUnknown(lastChunk'.id) \in DOMAIN nodes'

\* C4: a record of type new for an id that is in the store keeps the previous value of
\* content, toolArgs and toolResult as a prefix of the value after the record.
C4_NewNeverResets ==
    [][(AppliedToExisting /\ lastChunk'.type = MessageType_NEW) =>
          \A acc \in Accumulators :
              IsPrefix(OrEmpty(nodes[OrUnknown(lastChunk'.id)][acc]),
                       OrEmpty(nodes'[OrUnknown(lastChunk'.id)][acc]))]_vars

\* The last step applied a record that created a node.
CreatedNode ==
    /\ nRec' = nRec + 1
    /\ OrUnknown(lastChunk'.id) \notin DOMAIN nodes
    /\ OrUnknown(lastChunk'.id) \in DOMAIN nodes'

\* C5: while a blocking call is in progress, a record that creates a node other than
\* the scope node (and is not itself a blocking call) is attached under the scope: the
\* node's parentId is the scope id and the node is in the children of the scope node.
C5_ReparentedUnderScope ==
    [][(/\ path \in LivePaths
        /\ CreatedNode
        /\ openScopes # {}
        /\ OrUnknown(lastChunk'.id) \notin openScopes
        /\ ~(lastChunk'.role = TOOL_CALL /\ lastChunk'.name = NestingTrigger)) =>
          \E s \in openScopes :
              /\ nodes'[OrUnknown(lastChunk'.id)].parentId = s
              /\ s \in DOMAIN nodes'
              /\ Includes(nodes'[s].children, OrUnknown(lastChunk'.id))]_vars

\* C6: a scope that was closed by its result record is never the active scope again;
\* only a blocking call with another id opens a scope after that.
C6_ClosedStaysClosed == activeBlockingToolId \notin closedScopes

\* The persisted records in the order p.
Permuted(p) == [i \in 1..Len(hist) |-> hist[p[i]]]

\* What the claim compares: ids, parents, roots and children as sets, roles, text.
Shape(t) ==
    [ids |-> DOMAIN t.nodes,
     roots |-> {t.rootIds[i] : i \in 1..Len(t.rootIds)},
     nodes |-> [id \in DOMAIN t.nodes |->
                  [parentId |-> t.nodes[id].parentId,
                   children |-> {t.nodes[id].children[i] :
                                    i \in 1..Len(t.nodes[id].children)},
                   role |-> t.nodes[id].role,
                   content |-> OrEmpty(t.nodes[id].content),
                   toolArgs |-> OrEmpty(t.nodes[id].toolArgs),
                   toolResult |-> OrEmpty(t.nodes[id].toolResult)]]]

\* C7: the reconstruction of the persisted records does not depend on their order: every
\* permutation gives the same ids, parents, roots, children, roles and merged text
\* (stated for records that carry their id, so that the ids do not depend on positions).
C7_OrderIndependent ==
    (Len(hist) > 1 /\ \A i \in 1..Len(hist) : hist[i].id # null) =>
        \A p \in Permutations(1..Len(hist)) :
            Shape(Reconstruct(Batch(Permuted(p)))) = Shape(tree)

\* Ids, the parent of every node, the ordered children and the ordered roots.
Topology(t) ==
    [ids |-> DOMAIN t.nodes,
     rootIds |-> t.rootIds,
     parentId |-> [id \in DOMAIN t.nodes |-> t.nodes[id].parentId],
     children |-> [id \in DOMAIN t.nodes |-> t.nodes[id].children]]

\* C8: the tree reconstructed from the persisted records has the topology that live
\* ingestion of the same records in the same order produces.
C8_SameTopologyAsLive == Topology(tree) = Topology(Ingest(hist))

\* C9: a record applied to a node that is in the store changes no accumulator but the
\* one its role is routed to (tool -> toolResult, tool_call -> toolArgs, other -> content),
\* in processChunk of both revisions and in the merge of processHistoryNode.
C9_OtherAccumulatorsUnchanged ==
    [][AppliedToExisting =>
          \A acc \in Accumulators \ {Route(lastChunk'.role)} :
              nodes'[OrUnknown(lastChunk'.id)][acc] = nodes[OrUnknown(lastChunk'.id)][acc]]_vars

\* A result record was applied to a node that holds a call input: both are on the node.
C9_CallAndResultCoexist ==
    /\ nRec = 2
    /\ lastChunk.role = TOOL
    /\ \E id \in DOMAIN nodes :
          /\ lastChunk.id = id
          /\ OrEmpty(nodes[id].toolArgs) # <<>>
          /\ OrEmpty(nodes[id].toolResult) # <<>>

\* C10: no record changes the role of a node that is in the store; a node created by a
\* tool_call record is still a tool_call after the result record of role tool.
C10_RoleNeverChanges ==
    [][\A id \in DOMAIN nodes \cap DOMAIN nodes' : nodes'[id].role = nodes[id].role]_vars

\* A record of role tool was applied to a node created by a tool_call record.
C10_ResultOnCallNode ==
    /\ lastChunk.role = TOOL
    /\ \E id \in DOMAIN nodes :
          /\ lastChunk.id = id
          /\ nodes[id].role = TOOL_CALL
          /\ nodes[id].status = "completed"

\* arr holds no id twice
NoDuplicates(arr) == \A i, j \in 1..Len(arr) : arr[i] = arr[j] => i = j

\* The ids a step adds at the end of a list are ids of nodes the step created.
Extended(old, new) ==
    /\ IsPrefix(old, new)
    /\ \A i \in (Len(old) + 1)..Len(new) : new[i] \notin DOMAIN nodes /\ new[i] \in DOMAIN nodes'

\* C11: after every applied record or batch no children list and no root list holds an
\* id twice, and a step only adds, at the end of a list, ids of nodes it creates (unless
\* it resets the store): a record for an id that exists never moves or re-adds it.
C11_ListsUniqueInArrivalOrder ==
    [][/\ NoDuplicates(rootIds')
       /\ \A id \in DOMAIN nodes' : NoDuplicates(nodes'[id].children)
       /\ DOMAIN nodes \subseteq DOMAIN nodes' =>
             /\ Extended(rootIds, rootIds')
             /\ \A id \in DOMAIN nodes : Extended(nodes[id].children, nodes'[id].children)]_vars

\* A second node was created under the first one, which is the only root.
C11_ChildRegistered ==
    /\ nRec = 2
    /\ \E id \in DOMAIN nodes :
          /\ id # lastChunk.id
          /\ rootIds = <<id>>
          /\ nodes[id].children = <<lastChunk.id>>

\* C12: once the status of a node is completed or error, a later record for its id that
\* processChunk applies leaves content, toolArgs and toolResult as they were.
C12_FrozenAfterStreaming ==
    [][(/\ path = "part_007"
        /\ AppliedToExisting
        /\ nodes[OrUnknown(lastChunk'.id)].status # "streaming") =>
          \A acc \in Accumulators :
              nodes'[OrUnknown(lastChunk'.id)][acc] = nodes[OrUnknown(lastChunk'.id)][acc]]_vars

\* C13: no step changes the parentId of a node that is in the store, and unless the step
\* resets the store every id of the root list is still in the root list after it.
C13_ParentFixed ==
    [][/\ \A id \in DOMAIN nodes \cap DOMAIN nodes' :
             nodes'[id].parentId = nodes[id].parentId
       /\ DOMAIN nodes \subseteq DOMAIN nodes' =>
             \A i \in 1..Len(rootIds) : Includes(rootIds', rootIds[i])]_vars

\* A record that names another parent was applied to a node that has a parent.
C13_RecordWithOtherParent ==
    /\ nRec = 2
    /\ \E id \in DOMAIN nodes :
          /\ lastChunk.id = id
          /\ nodes[id].parentId = "a"
          /\ lastChunk.parent_id = null

\* C14: after New Chat or the selection of another conversation, no record of the stream
\* of a session that was in progress at that moment is applied to the store.
C14_DiscardedSessionWritesNothing ==
    [][\A c \in Controllers : task[c].discarded => ~Viz_stream_chunk(c)]_vars

\* The same for the handlers of part_007.
DiscardedSessionWritesNothing ==
    [][\A c \in Controllers : task[c].discarded => ~stream_chunk(c)]_vars

\* C15: whenever a session-end path (stop, end of stream, error) takes a node out of
\* streaming without applying a record, the node becomes error if its role is error and
\* completed otherwise.
C15_SweepByRole ==
    [][lastChunk' = NoChunk =>
          \A id \in DOMAIN nodes \cap DOMAIN nodes' :
              (nodes[id].status = "streaming" /\ nodes'[id].status # "streaming") =>
                  nodes'[id].status = IF nodes[id].role = ERROR THEN "error" ELSE "completed"]_vars

\* The line cannot be decoded into a record of a known role.
Malformed(line) ==
    \/ line.kind # "object"
    \/ line.chunk.role \notin Role

\* C16: a malformed line (no JSON, no record, or a record of an unknown role) leaves the
\* store exactly as it was; the lines after it are still read.
C16_MalformedDropped ==
    [][(nRec' = nRec + 1 /\ Malformed(lastLine')) =>
          (nodes' = nodes /\ rootIds' = rootIds)]_vars

\* The same for the lines that cannot be decoded at all.
UndecodableDropped ==
    [][(nRec' = nRec + 1 /\ lastLine'.kind # "object") =>
          (nodes' = nodes /\ rootIds' = rootIds)]_vars

\* C17: the report card is shown for a node only if the isFinal flag of the node is true.
C17_CardOnlyIfFinal == (card.rendered /\ card.shown) => card.node.isFinal

\* The same for the component of part_002 alone.
CardOnlyIfFinal_part_002 ==
    (path = "part_002" /\ card.rendered /\ card.shown) => card.node.isFinal

\* The number of positions of arr that hold x.
Occurrences(arr, x) == Cardinality({i \in 1..Len(arr) : arr[i] = x})

\* C18: every node of the store is registered exactly once: in the root list if its
\* parentId is null, otherwise in the children of the node its parentId names.
C18_RegisteredOnce ==
    \A id \in DOMAIN nodes :
        IF nodes[id].parentId = null
        THEN Occurrences(rootIds, id) = 1
        ELSE /\ nodes[id].parentId \in DOMAIN nodes
             /\ Occurrences(nodes[nodes[id].parentId].children, id) = 1

\* node.isFinal of a node literal, which the nodes of Visualization.tsx do not carry
FlaggedFinal(node) == "isFinal" \in DOMAIN node /\ node.isFinal

\* The node of id took the effect of a final record of the given role.
TookFinal(map, id, role) ==
    /\ id \in DOMAIN map
    /\ map[id].status = (IF role = ERROR THEN "error" ELSE "completed")
    /\ FlaggedFinal(map[id])

\* C19: after processChunk applies a record of type final, whether or not a node with
\* its id was in the store, the node is in the store, its status is error if the
\* record's role is error and completed otherwise, and its isFinal flag is true.
C19_FinalTakesEffect ==
    [][(/\ path \in LivePaths
        /\ nRec' = nRec + 1
        /\ lastChunk'.type = MessageType_FINAL) =>
          TookFinal(nodes', OrUnknown(lastChunk'.id), lastChunk'.role)]_vars

\* The same for processChunk of part_007 and the records that do not name their own id
\* as parent.
FinalTakesEffect_part_007 ==
    [][(/\ path = "part_007"
        /\ nRec' = nRec + 1
        /\ lastChunk'.type = MessageType_FINAL
        /\ lastChunk'.parent_id # OrUnknown(lastChunk'.id)) =>
          TookFinal(nodes', OrUnknown(lastChunk'.id), lastChunk'.role)]_vars

\* The last step applied a record of role tool to a node of the store.
AppliedResult ==
    /\ path \in LivePaths
    /\ nRec' = nRec + 1
    /\ lastChunk'.role = TOOL
    /\ OrUnknown(lastChunk'.id) \in DOMAIN nodes'

\* C20: after processChunk applies a record of role tool to a node, of any type, the
\* node's status is completed, and if the node was in the store before the record its
\* toolResult is the previous toolResult followed by the record's message.
C20_ResultCompletes ==
    [][AppliedResult =>
          /\ nodes'[OrUnknown(lastChunk'.id)].status = "completed"
          /\ OrUnknown(lastChunk'.id) \in DOMAIN nodes =>
                 OrEmpty(nodes'[OrUnknown(lastChunk'.id)].toolResult) =
                     OrEmpty(nodes[OrUnknown(lastChunk'.id)].toolResult) \o lastChunk'.message
      ]_vars

\* The same for processChunk of part_007 and the records that do not name their own id
\* as parent.
ResultCompletes_part_007 ==
    [][(/\ AppliedResult
        /\ path = "part_007"
        /\ lastChunk'.parent_id # OrUnknown(lastChunk'.id)) =>
          /\ nodes'[OrUnknown(lastChunk'.id)].status = "completed"
          /\ OrUnknown(lastChunk'.id) \in DOMAIN nodes =>
                 OrEmpty(nodes'[OrUnknown(lastChunk'.id)].toolResult) =
                     OrEmpty(nodes[OrUnknown(lastChunk'.id)].toolResult) \o lastChunk'.message
      ]_vars

\* The status half of C20 for processChunk of Visualization.tsx alone.
ResultCompletes_Visualization ==
    [][(AppliedResult /\ path = "Visualization") =>
          nodes'[OrUnknown(lastChunk'.id)].status = "completed"]_vars

\* The record applied by the last step is a blocking call that step 1 tracks.
IsBlockingCall(chunk) ==
    /\ chunk.type \in {MessageType_NEW, MessageType_APPEND}
    /\ chunk.role = TOOL_CALL
    /\ chunk.name = NestingTrigger

\* C21: a blocking call replaces whatever scope was active by its own id; the result
\* record of the active scope leaves no scope active, whatever scope was open before;
\* and a record that creates a node while no scope is active keeps its literal parent.
C21_OneScopeReplaced ==
    [][(path = "Visualization" /\ nRec' = nRec + 1) =>
          /\ IsBlockingCall(lastChunk') =>
                 activeBlockingToolId' = OrUnknown(lastChunk'.id)
          /\ (/\ lastChunk'.role = TOOL
              /\ activeBlockingToolId = OrUnknown(lastChunk'.id)) =>
                 activeBlockingToolId' = null
          /\ (/\ activeBlockingToolId = null
              /\ ~IsBlockingCall(lastChunk')
              /\ CreatedNode) =>
                 nodes'[OrUnknown(lastChunk'.id)].parentId = lastChunk'.parent_id
      ]_vars

\* Witness of C21: the call a opened a scope, the call b replaced it, and the result
\* of b has just left no scope active while a still has no result.
C21_SecondScopeClosed ==
    /\ path = "Visualization"
    /\ lastChunk.role = TOOL
    /\ lastChunk.id = "b"
    /\ "b" \in closedScopes
    /\ "a" \in openScopes
    /\ "a" \notin closedScopes
    /\ activeBlockingToolId = null

Idless == {pos \in (1..Len(hist)) \X (0..(MaxLoaded - 1)) :
              /\ pos[2] < Len(hist[pos[1]].content)
              /\ hist[pos[1]].content[pos[2] + 1].id = null}

\* The ids the loaded records carry.
GivenIds == {hist[k].content[i].id : <<k, i>> \in
                {q \in (1..Len(hist)) \X (1..MaxLoaded) :
                    q[2] <= Len(hist[q[1]].content) /\ hist[q[1]].content[q[2]].id # null}}

\* C23: every loaded record without an id has the node <message_uuid>_<index> in the
\* reconstructed tree, the records without an id have as many nodes as there are such
\* records, and loading the same batches again gives the same tree.
C23_FallbackIds ==
    /\ \A pos \in Idless :
           FallbackId(hist[pos[1]].message_uuid, pos[2]) \in DOMAIN tree.nodes
    /\ Cardinality(DOMAIN tree.nodes \ GivenIds) = Cardinality(Idless)
    /\ LoadedTree(path, hist).nodes = tree.nodes
    /\ LoadedTree(path, hist).rootIds = tree.rootIds

\* The same for handleSelectHistory of part_007 alone.
FallbackIds_part_007 == path = "part_007" => C23_FallbackIds

\* The positions of the loaded records, all batches in order, that have the id and role.
PositionsOf(id, role) ==
    {i \in 1..Len(Flatten(hist, 1)) :
        Flatten(hist, 1)[i].id = id /\ Flatten(hist, 1)[i].role = role}

\* The only element of a set of one element.
TheOne(S) == CHOOSE x \in S : TRUE

\* The id has one call record and, after it, one result record.
CallThenResult(id) ==
    /\ Cardinality(PositionsOf(id, TOOL_CALL)) = 1
    /\ Cardinality(PositionsOf(id, TOOL)) = 1
    /\ TheOne(PositionsOf(id, TOOL_CALL)) < TheOne(PositionsOf(id, TOOL))

\* The first loaded record of the id comes after a record of its parent.
ParentLoadedFirst(id) ==
    \E i \in 1..Len(Flatten(hist, 1)) :
        /\ Flatten(hist, 1)[i].id = id
        /\ Flatten(hist, 1)[i].parent_id # null
        /\ Flatten(hist, 1)[i].parent_id # id
        /\ \A j \in 1..(i - 1) : Flatten(hist, 1)[j].id # id
        /\ \E j \in 1..(i - 1) : Flatten(hist, 1)[j].id = Flatten(hist, 1)[i].parent_id

\* C24: in the reconstructed tree a call record and a result record of the same id are
\* one node that holds the call's message in toolArgs and the result's message in
\* toolResult, and the id is at most once in any children list (once in its parent's
\* when the parent was loaded first).
C24_ResultMergesIntoCall ==
    \A id \in GivenIds :
        CallThenResult(id) =>
            /\ id \in DOMAIN tree.nodes
            /\ tree.nodes[id].toolArgs =
                   Flatten(hist, 1)[TheOne(PositionsOf(id, TOOL_CALL))].message
            /\ tree.nodes[id].toolResult =
                   Flatten(hist, 1)[TheOne(PositionsOf(id, TOOL))].message
            /\ \A q \in DOMAIN tree.nodes : Occurrences(tree.nodes[q].children, id) <= 1
            /\ ParentLoadedFirst(id) =>
                   Occurrences(tree.nodes[tree.nodes[id].parentId].children, id) = 1

\* The same for handleSelectHistory of part_007 alone.
ResultMergesIntoCall_part_007 == path = "part_007" => C24_ResultMergesIntoCall

\* A call and its result were loaded under a parent that was loaded before them.
CallAndResultUnderParent ==
    \E id \in GivenIds : CallThenResult(id) /\ ParentLoadedFirst(id)

\* The step is the end of a history load by handler c that was not cancelled, did not
\* fail and found no incomplete batch to resume.
LoadFinished(c) ==
    /\ task[c].kind = "history"
    /\ task[c].pc = "detail"
    /\ task'[c].pc # "stream"
    /\ task'[c].pc # "detail"
    /\ c \notin aborted
    /\ error' = null

\* C25: when a history load that resumes nothing has finished, every node of the store
\* has status completed, whatever its role.
C25_LoadedNodesCompleted ==
    [][\A c \in Controllers :
          LoadFinished(c) => \A id \in DOMAIN nodes' : nodes'[id].status = "completed"]_vars

\* The same for the nodes whose role is not error.
LoadedNodesCompletedUnlessError ==
    [][\A c \in Controllers :
          LoadFinished(c) =>
              \A id \in DOMAIN nodes' :
                  nodes'[id].role # ERROR => nodes'[id].status = "completed"]_vars

\* The step is the installation by handler c of the tree rebuilt from the batches.
Installed(c) ==
    /\ task[c].kind = "history"
    /\ task[c].pc = "detail"
    /\ task'[c].pc # "detail"
    /\ c \notin aborted
    /\ error' = null

\* The step applies a record of the stream that handler c resumed.
ResumedRecord(c) ==
    /\ task[c].kind = "history"
    /\ task[c].pc = "stream"
    /\ nRec' = nRec + 1

\* The installation by c, if it resumes the thread of batch k, does so in order: the
\* store is the rebuilt tree and no record has been applied yet.
ResumesInOrder(c, k) ==
    /\ task'[c].pc = "stream"
    /\ task'[c].thread = hist'[k].message_uuid
    /\ nodes' = tree'.nodes
    /\ rootIds' = tree'.rootIds
    /\ nRec' = nRec

\* A resumed record is applied on top of the rebuilt tree: every rebuilt node is still
\* in the store and every root is still a root.
OnTopOfRebuilt ==
    /\ DOMAIN tree.nodes \subseteq DOMAIN nodes'
    /\ \A i \in 1..Len(tree.rootIds) : Includes(rootIds', tree.rootIds[i])
    /\ \A id \in DOMAIN tree.nodes \ {OrUnknown(lastChunk'.id), lastChunk'.parent_id} :
           nodes'[id] = nodes[id]

SameButStatus(old, new) ==
    /\ DOMAIN new = DOMAIN old
    /\ \A id \in DOMAIN old : [new[id] EXCEPT !.status = old[id].status] = old[id]

\* C27: a handler whose stream fails or is cancelled returns; the nodes built so far
\* stay in the store, changed at most in status; a failure of a stream that was not
\* cancelled records an error message and ends the search; the stop button and the
\* return of a cancelled handler record none.
C27_GracefulEnd ==
    [][/\ \A c \in Controllers :
              /\ stream_error(c) =>
                     /\ task'[c].pc = "done"
                     /\ SameButStatus(nodes, nodes')
                     /\ rootIds' = rootIds
              /\ (stream_error(c) /\ c \notin aborted) =>
                     /\ error' # null
                     /\ ~isSearching'
              /\ (stream_error(c) /\ c \in aborted) =>
                     /\ error' = error
                     /\ nodes' = nodes
       /\ handleSearch_stop =>
              /\ error' = error
              /\ SameButStatus(nodes, nodes')
              /\ rootIds' = rootIds
              /\ ~isSearching'
      ]_vars

\* Witness of C27: the stop button cancelled a stream that had built a node, the
\* handler has returned, the node is in the store and no error is recorded.
C27_CancelledMidStream ==
    /\ path = "part_007"
    /\ nCtl = 1
    /\ 1 \in aborted
    /\ task[1].kind = "search"
    /\ task[1].pc = "done"
    /\ ~task[1].discarded
    /\ nRec > 0
    /\ Cardinality(DOMAIN nodes) > 1
    /\ error = null
    /\ ~isSearching

\* A stream that was not cancelled failed after it had built a node: the node is in
\* the store and the error is recorded.
FailedMidStream ==
    /\ path = "part_007"
    /\ nCtl = 1
    /\ aborted = {}
    /\ task[1].kind = "search"
    /\ task[1].pc = "done"
    /\ nRec > 0
    /\ Cardinality(DOMAIN nodes) > 1
    /\ error = "search failed"
    /\ ~isSearching

\* What the claim expects of a body: one record for each line that is not blank and
\* parses once its prefix is removed, in line order, the last line included.
Expected(body) == YieldLines(<<>>, Split(body, <<>>), 1)

\* C28: when streamThreading has ended, the records it yielded are the records of the
\* parseable lines of the body, in line order, however the body was cut into chunks.
C28_OneRecordPerLine == wire.pc = "done" => wire.yielded = Expected(wire.sent)

\* The same for streamThreading of api.ts alone.
OneRecordPerLine_api == path = "api.ts" => C28_OneRecordPerLine

\* The handler of controller c has not returned.
Pending(c) == task[c].pc \in {"fetch", "detail", "stream"}

\* The step is the return of the handler of controller c.
Returns(c) == Pending(c) /\ task'[c].pc = "done"

\* C29: while no handler is pending and no controller is active isSearching is false;
\* when the handler started last returns isSearching is false; and a handler that
\* returns while another controller is the active one changes neither isSearching nor
\* the active controller.
C29_SearchingTracksSession ==
    /\ []((abortControllerRef = NoController /\ \A c \in Controllers : ~Pending(c))
             => ~isSearching)
    /\ [][\A c \in Controllers :
             /\ (Returns(c) /\ c = nCtl) => ~isSearching'
             /\ (Returns(c) /\ abortControllerRef # c) =>
                    /\ isSearching' = isSearching
                    /\ abortControllerRef' = abortControllerRef]_vars

\* Witness of C29: the first handler returned after a history selection had replaced
\* it, and the search flag and the controller of the second session are untouched.
C29_OldSessionReturned ==
    /\ path = "part_007"
    /\ nCtl = 2
    /\ 1 \in aborted
    /\ task[1].pc = "done"
    /\ ~(2 \in aborted)
    /\ Pending(2)
    /\ abortControllerRef = 2
    /\ isSearching

\* Following parentId from id ends at a node without parent within the given number of
\* steps (a parent that is not in the store ends the walk without reaching a root).
RECURSIVE ReachesRoot(_, _)
ReachesRoot(id, steps) ==
    IF id \notin DOMAIN nodes THEN FALSE
    ELSE IF nodes[id].parentId = null THEN TRUE
    ELSE IF steps = 0 THEN FALSE
    ELSE ReachesRoot(nodes[id].parentId, steps - 1)

\* C30: the parent links of the store form a forest: no node is its own parent, no id
\* is in its own children list, and following parentId from any node reaches a root.
C30_Forest ==
    \A id \in DOMAIN nodes :
        /\ nodes[id].parentId # id
        /\ ~Includes(nodes[id].children, id)
        /\ ReachesRoot(id, Cardinality(DOMAIN nodes))

====
